---------------------------- MODULE Spec2Model ----------------------------
(***************************************************************************)
(* A model of src/src/wordle.py: the constraint State, the feedback oracle *)
(* (get_test_response), the response parser, the candidate filter, the     *)
(* ranker and selector, the game loop (play), batch mode (test_many) and   *)
(* the optimal-strategy search (dive / compute_optimal).                   *)
(*                                                                         *)
(* Encoding.  A letter is its position in string.ascii_uppercase (A = 1,   *)
(* ..., Z = 26); a word is a sequence of letters, so Python's string order *)
(* is the lexicographic order of these sequences.  Python indices start at *)
(* 0 and the sequences here at 1.  A response is a sequence of one-char    *)
(* strings; the three emoji glyphs are written "B", "Y" and "G".  The      *)
(* empty string '' that get_test_response writes into its work lists is 0. *)
(* None, where Python tests it by truth value (a guess, a test word, a     *)
(* guess queue), is the empty sequence; a State that is None is NoneState. *)
(* Printing (quiet, debug) changes no state and is left out.               *)
(***************************************************************************)
EXTENDS Integers, Sequences, FiniteSets, TLC

VARIABLES
    words,              \* play / test_many / compute_optimal: the dictionary (a list)
    word_length,        \* play: the word length
    max_rounds,         \* play / compute_optimal: the round budget
    test_word,          \* play: the simulated target, <<>> when interactive
    no_emoji,           \* play / get_test_response: letter marks or glyph marks
    guesses,            \* play: the pre-supplied guess queue (parameter)
    possible_answers,   \* play: the answer pool, <<>> when absent
    knowledge,          \* play: the running State
    round,              \* play: the round counter
    responses,          \* play: the accepted response history
    remaining_words,    \* play: the remaining candidate pool
    remaining_guesses,  \* play: the unconsumed part of the guess queue
    guess,              \* play: local of the last loop iteration
    response,           \* play: local of the last loop iteration
    info,               \* play: parse result of the last iteration, NoneState if not reached
    updated,            \* play: merge result of the last iteration, NoneState if not reached
    pc,                 \* play: "idle", "loop", "return_round", "return_None", "raised"
    eligible_words,     \* test_many: the evaluation set
    scores,             \* test_many: wins per round
    failed,             \* test_many: lost games
    tm_idx,             \* test_many: position in eligible_words
    tm_pc,              \* test_many: "idle", "loop", "playing", "stats", "done", "raised"
    trie,               \* compute_optimal: the trie
    co_idx              \* compute_optimal: position in words, 0 when not running

playParams == <<words, word_length, max_rounds, test_word, no_emoji, guesses,
                possible_answers>>
playLocals == <<knowledge, round, responses, remaining_words, remaining_guesses,
                guess, response, info, updated, pc>>
batchVars  == <<eligible_words, scores, failed, tm_idx, tm_pc>>
optVars    == <<trie, co_idx>>
vars       == <<playParams, playLocals, batchVars, optVars>>

---------------------------------------------------------------------------
(* Program constants. *)

RANK_PRECISION == 4
RANK_HEURISTIC_MIN_COUNT == 100
RANK_HEURISTIC_TRY_TO_WIN_COUNT == 10

RESPONSE_WRONG == "b"
RESPONSE_CLOSE == "y"
RESPONSE_RIGHT == "g"
RESPONSE_WRONG_EMOJI == "B"
RESPONSE_CLOSE_EMOJI == "Y"
RESPONSE_RIGHT_EMOJI == "G"

ascii_uppercase == 1..26

---------------------------------------------------------------------------
(* Python's list and dict primitives. *)

Range(s) == {s[i] : i \in DOMAIN s}

\* d.get(k, default)
get(d, k, default) == IF k \in DOMAIN d THEN d[k] ELSE default

\* d[k] = v
put(d, k, v) == [x \in (DOMAIN d) \cup {k} |-> IF x = k THEN v ELSE d[x]]

\* the empty dict
EmptyDict == [x \in {} |-> 0]

\* list.index(x): the first position holding x (x is in the list)
index(list, x) == CHOOSE i \in DOMAIN list :
                      list[i] = x /\ \A j \in DOMAIN list : list[j] = x => i <= j

\* list.remove(x): the list without the first occurrence of x (x is in the list)
remove(list, x) ==
    LET i == index(list, x)
    IN  [j \in 1..(Len(list) - 1) |-> IF j < i THEN list[j] ELSE list[j + 1]]

\* str.count / the number of positions of s holding x
count(s, x) == Cardinality({i \in DOMAIN s : s[i] = x})

RECURSIVE SumOver(_, _)
SumOver(d, keys) ==
    IF keys = {} THEN 0
    ELSE LET k == CHOOSE k \in keys : TRUE IN d[k] + SumOver(d, keys \ {k})

\* Python's str < str
RECURSIVE LexLess(_, _)
LexLess(a, b) ==
    IF a = <<>> THEN b # <<>>
    ELSE IF b = <<>> THEN FALSE
    ELSE IF a[1] # b[1] THEN a[1] < b[1]
    ELSE LexLess(Tail(a), Tail(b))

\* sorted(set of words)
RECURSIVE SortedList(_)
SortedList(S) ==
    IF S = {} THEN <<>>
    ELSE LET m == CHOOSE w \in S : \A v \in S \ {w} : LexLess(w, v)
         IN  <<m>> \o SortedList(S \ {m})

---------------------------------------------------------------------------
(* class State *)

State(wl) ==
    [required |-> EmptyDict,
     spots |-> [idx \in 1..wl |-> ascii_uppercase],
     word_length |-> wl]

NoneState == [none |-> TRUE]

Max(a, b) == IF a >= b THEN a ELSE b

\* mutant: the position sets are united, not intersected
fill_UnionSpots(self, other) ==
    [self EXCEPT
        !.required = [letter \in (DOMAIN self.required) \cup (DOMAIN other.required) |->
                         IF letter \in DOMAIN other.required
                         THEN Max(get(self.required, letter, 0), other.required[letter])
                         ELSE self.required[letter]],
        !.spots = [idx \in DOMAIN self.spots |-> self.spots[idx] \cup other.spots[idx]]]

fill(self, other) ==
    [self EXCEPT
        !.required = [letter \in (DOMAIN self.required) \cup (DOMAIN other.required) |->
                         IF letter \in DOMAIN other.required
                         THEN Max(get(self.required, letter, 0), other.required[letter])
                         ELSE self.required[letter]],
        !.spots = [idx \in DOMAIN self.spots |-> self.spots[idx] \cap other.spots[idx]]]

mark_wrong(self, letter, idx) ==
    [self EXCEPT !.spots[idx] = @ \ {letter}]

mark_close(self, letter, idx) ==
    [self EXCEPT !.spots[idx] = @ \ {letter},
                 !.required = put(@, letter, get(@, letter, 0) + 1)]

mark_right(self, letter, idx) ==
    [self EXCEPT !.spots[idx] = {letter},
                 !.required = put(@, letter, get(@, letter, 0) + 1)]

\* mutant: the letter is discarded from solved spots too
mark_wrong_everywhere_AllSpots(self, letter) ==
    [self EXCEPT !.spots = [idx \in DOMAIN @ |-> @[idx] \ {letter}]]

mark_wrong_everywhere(self, letter) ==
    [self EXCEPT !.spots = [idx \in DOMAIN @ |->
                               IF Cardinality(@[idx]) > 1 THEN @[idx] \ {letter}
                               ELSE @[idx]]]

count_spots_with_letter(self, letter) ==
    Cardinality({idx \in DOMAIN self.spots : letter \in self.spots[idx]})

is_consistent(self) ==
    /\ \A idx \in DOMAIN self.spots : self.spots[idx] # {}
    /\ ~ (SumOver(self.required, DOMAIN self.required) > self.word_length)
    /\ \A letter \in DOMAIN self.required :
           ~ (self.required[letter] > count_spots_with_letter(self, letter))

\* mutant: the required counts of the two States are added, not maximised
merge_SumRequired(current_info, new_info) ==
    LET filled == fill(fill(State(current_info.word_length), current_info), new_info)
    IN  [filled EXCEPT
            !.required = [letter \in DOMAIN @ |->
                             get(current_info.required, letter, 0)
                                 + get(new_info.required, letter, 0)]]

merge(current_info, new_info) ==
    fill(fill(State(current_info.word_length), current_info), new_info)

---------------------------------------------------------------------------
(* get_test_response, is_win, is_not_word, parse *)

\* first loop: exact matches are marked and blanked in both work lists
ExactPass(guess_list, test_list, ne) ==
    [guess_list |-> [idx \in DOMAIN guess_list |->
                        IF guess_list[idx] = test_list[idx] THEN 0 ELSE guess_list[idx]],
     test_list  |-> [idx \in DOMAIN test_list |->
                        IF idx \in DOMAIN guess_list /\ guess_list[idx] = test_list[idx]
                        THEN 0 ELSE test_list[idx]],
     result     |-> [idx \in DOMAIN guess_list |->
                        IF guess_list[idx] = test_list[idx]
                        THEN (IF ne THEN RESPONSE_RIGHT ELSE RESPONSE_RIGHT_EMOJI)
                        ELSE ""]]

\* mutant: a close mark does not consume the target letter
RECURSIVE ClosePass_NoConsume(_, _, _)
ClosePass_NoConsume(st, idx, ne) ==
    IF idx > Len(st.guess_list) THEN st
    ELSE LET char == st.guess_list[idx] IN
         IF char = 0 \/ char \notin Range(st.test_list)
         THEN ClosePass_NoConsume(st, idx + 1, ne)
         ELSE ClosePass_NoConsume(
                [guess_list |-> [st.guess_list EXCEPT ![idx] = 0],
                 test_list  |-> st.test_list,
                 result     |-> [st.result EXCEPT ![idx] =
                                    IF ne THEN RESPONSE_CLOSE ELSE RESPONSE_CLOSE_EMOJI]],
                idx + 1, ne)

\* second loop, from position idx on: a letter still in test_list is marked
\* close and its first occurrence in test_list is blanked
RECURSIVE ClosePass(_, _, _)
ClosePass(st, idx, ne) ==
    IF idx > Len(st.guess_list) THEN st
    ELSE LET char == st.guess_list[idx] IN
         IF char = 0 \/ char \notin Range(st.test_list)
         THEN ClosePass(st, idx + 1, ne)
         ELSE ClosePass(
                [guess_list |-> [st.guess_list EXCEPT ![idx] = 0],
                 test_list  |-> [st.test_list EXCEPT ![index(st.test_list, char)] = 0],
                 result     |-> [st.result EXCEPT ![idx] =
                                    IF ne THEN RESPONSE_CLOSE ELSE RESPONSE_CLOSE_EMOJI]],
                idx + 1, ne)

\* third loop: what is left is wrong
WrongPass(st, ne) ==
    [idx \in DOMAIN st.result |->
        IF st.guess_list[idx] = 0 THEN st.result[idx]
        ELSE IF ne THEN RESPONSE_WRONG ELSE RESPONSE_WRONG_EMOJI]

get_test_response(g, tw, ne) ==
    WrongPass(ClosePass(ExactPass(g, tw, ne), 1, ne), ne)

is_win(resp) ==
    \A i \in DOMAIN resp : resp[i] = RESPONSE_RIGHT \/ resp[i] = RESPONSE_RIGHT_EMOJI

what == <<"w", "h", "a", "t">>

is_not_word(resp) == resp = what

\* the per-position loop of parse, from position idx on; an unknown mark
\* makes parse return None
RECURSIVE ParseMarks(_, _, _, _)
ParseMarks(result, g, resp, idx) ==
    IF idx > Len(resp) THEN result
    ELSE LET char == resp[idx]
             guess_char == g[idx]
         IN  IF char = RESPONSE_WRONG \/ char = RESPONSE_WRONG_EMOJI
             THEN ParseMarks(mark_wrong(result, guess_char, idx), g, resp, idx + 1)
             ELSE IF char = RESPONSE_CLOSE \/ char = RESPONSE_CLOSE_EMOJI
             THEN ParseMarks(mark_close(result, guess_char, idx), g, resp, idx + 1)
             ELSE IF char = RESPONSE_RIGHT \/ char = RESPONSE_RIGHT_EMOJI
             THEN ParseMarks(mark_right(result, guess_char, idx), g, resp, idx + 1)
             ELSE NoneState

\* the letters parse collects in its sets wrong and close
WrongLetters(g, resp) ==
    {g[idx] : idx \in {i \in DOMAIN resp :
                          resp[i] \in {RESPONSE_WRONG, RESPONSE_WRONG_EMOJI}}}

CloseLetters(g, resp) ==
    {g[idx] : idx \in {i \in DOMAIN resp :
                          resp[i] \in {RESPONSE_CLOSE, RESPONSE_CLOSE_EMOJI}}}

\* the loop over wrong_everywhere.  Python iterates the set in an unspecified
\* order; the order cannot matter while a spot that is not a singleton keeps
\* at least two letters, which 26 letters and words shorter than 24 ensure.
RECURSIVE MarkAllWrongEverywhere(_, _)
MarkAllWrongEverywhere(result, letters) ==
    IF letters = {} THEN result
    ELSE LET c == CHOOSE c \in letters : \A d \in letters : c <= d
         IN  MarkAllWrongEverywhere(mark_wrong_everywhere(result, c), letters \ {c})

\* mutant: wrong_everywhere = wrong, the close letters not taken out
parse_WrongNotMinusClose(g, resp, wl) ==
    IF Len(resp) # wl THEN NoneState
    ELSE LET result == ParseMarks(State(wl), g, resp, 1)
             wrong_everywhere == WrongLetters(g, resp)
         IN  IF result = NoneState THEN NoneState
             ELSE MarkAllWrongEverywhere(result, wrong_everywhere)

parse(g, resp, wl) ==
    IF Len(resp) # wl THEN NoneState
    ELSE LET result == ParseMarks(State(wl), g, resp, 1)
             wrong_everywhere == WrongLetters(g, resp) \ CloseLetters(g, resp)
         IN  IF result = NoneState THEN NoneState
             ELSE MarkAllWrongEverywhere(result, wrong_everywhere)

---------------------------------------------------------------------------
(* filter_words, satisfied *)

satisfied(word, state) ==
    /\ Len(word) = state.word_length
    /\ \A idx \in DOMAIN word : word[idx] \in state.spots[idx]
    /\ \A char \in DOMAIN state.required : ~ (count(word, char) < state.required[char])

filter_words(ws, state) == SelectSeq(ws, LAMBDA word : satisfied(word, state))

---------------------------------------------------------------------------
(* rank_word, rank_words, choose_word, get_next_word *)

RECURSIVE Pow(_, _)
Pow(b, e) == IF e = 0 THEN 1 ELSE b * Pow(b, e - 1)

\* round(1 - n / max_partitions, RANK_PRECISION), in units of 10^-RANK_PRECISION.
\* 1 - n/max is never half-way between two such units (max is a power of 3),
\* so rounding to nearest is floor(x + 1/2).
RoundedRank(n, max_partitions) ==
    (2 * (max_partitions - n) * Pow(10, RANK_PRECISION) + max_partitions)
        \div (2 * max_partitions)

\* line 399: pools above RANK_HEURISTIC_MIN_COUNT are sampled through
\* random.seed(word) and shuffle
use_heuristic(ws) == Len(ws) > RANK_HEURISTIC_MIN_COUNT

\* rank_word where use_heuristic is false and every target is scored; every
\* pool of this model is that small (the initial states require it)
rank_word(word, ws) ==
    LET max_partitions == Pow(3, Len(word))
        partitions == {get_test_response(word, ws[i], TRUE) : i \in DOMAIN ws}
    IN  RoundedRank(Cardinality(partitions), max_partitions)

\* mutant: the try-to-win switch is lost, the whole dictionary is always ranked
rank_words_WholeDictionary(ws, rem) ==
    [word \in Range(ws) |-> rank_word(word, rem)]

rank_words(ws, rem) ==
    LET total_remaining == Len(rem)
        word_set == IF total_remaining < RANK_HEURISTIC_TRY_TO_WIN_COUNT THEN rem ELSE ws
    IN  [word \in Range(word_set) |-> rank_word(word, rem)]

\* the first item of the rankings sorted by (score, word), which is also the
\* first of the top five that choose_word keeps; None when empty
choose_word(word_rankings) ==
    IF DOMAIN word_rankings = {} THEN <<>>
    ELSE CHOOSE w \in DOMAIN word_rankings :
             \A v \in (DOMAIN word_rankings) \ {w} :
                 \/ word_rankings[w] < word_rankings[v]
                 \/ word_rankings[w] = word_rankings[v] /\ LexLess(w, v)

\* get_next_word: the guess, and the guess queue it leaves
get_next_word(ws, rem, rg) ==
    IF rg # <<>>
    THEN [guess |-> Head(rg), remaining_guesses |-> Tail(rg)]
    ELSE [guess |-> choose_word(rank_words(ws, rem)), remaining_guesses |-> rg]

---------------------------------------------------------------------------
(* play *)

\* what the interactive player may type: every letter-mark response of the
\* word length, the all-glyph win, the not-a-word flag, a response that is
\* too short, and one with an unknown mark
InputResponses(wl) ==
    [1..wl -> {RESPONSE_WRONG, RESPONSE_CLOSE, RESPONSE_RIGHT}]
        \cup {[i \in 1..wl |-> RESPONSE_RIGHT_EMOJI]}
        \cup {what}
        \cup {[i \in 1..(wl - 1) |-> RESPONSE_RIGHT]}
        \cup {[i \in 1..wl |-> IF i = 1 THEN "x" ELSE RESPONSE_WRONG]}

\* line 260: the oracle's response with a test word, the player's without
ResponseSource(g) ==
    IF test_word # <<>> THEN {get_test_response(g, test_word, no_emoji)}
    ELSE InputResponses(word_length)

\* lines 247-251: the locals of play before its loop
play_entry(ws, wl, gs, pa) ==
    [knowledge |-> State(wl),
     round |-> 1,
     responses |-> <<>>,
     remaining_words |-> filter_words(IF pa # <<>> THEN pa ELSE ws, State(wl)),
     remaining_guesses |-> gs]

\* lines 254-257: no guess, play returns None
play_no_guess(next) ==
    /\ guess' = next.guess
    /\ remaining_guesses' = next.remaining_guesses
    /\ pc' = "return_None"
    /\ UNCHANGED <<words, knowledge, round, responses, remaining_words,
                   response, info, updated>>

\* lines 261-265: words.remove(guess), remaining_words.remove(guess); each
\* raises ValueError when the guess is not in the list
play_not_word(g) ==
    /\ info' = NoneState
    /\ updated' = NoneState
    /\ UNCHANGED <<knowledge, round, responses>>
    /\ IF g \notin Range(words)
       THEN pc' = "raised" /\ UNCHANGED <<words, remaining_words>>
       ELSE /\ words' = remove(words, g)
            /\ IF g \notin Range(remaining_words)
               THEN pc' = "raised" /\ UNCHANGED remaining_words
               ELSE pc' = "loop" /\ remaining_words' = remove(remaining_words, g)

\* mutant: the merge is kept although it is inconsistent with the running State
play_response_KeepsMerge(g, resp) ==
    LET new_info == parse(g, resp, word_length)
        accepted == new_info # NoneState /\ is_consistent(new_info)
        new_updated == IF accepted THEN merge(knowledge, new_info) ELSE NoneState
    IN  /\ info' = new_info
        /\ updated' = new_updated
        /\ UNCHANGED words
        /\ IF ~ accepted
           THEN pc' = "loop" /\ UNCHANGED <<knowledge, round, responses, remaining_words>>
           ELSE IF ~ is_consistent(new_updated)
           THEN /\ pc' = "loop"
                /\ knowledge' = new_updated
                /\ UNCHANGED <<round, responses, remaining_words>>
           ELSE IF is_win(resp)
           THEN /\ responses' = Append(responses, resp)
                /\ pc' = "return_round"
                /\ UNCHANGED <<knowledge, round, remaining_words>>
           ELSE IF round >= max_rounds
           THEN /\ responses' = Append(responses, resp)
                /\ pc' = "return_None"
                /\ UNCHANGED <<knowledge, round, remaining_words>>
           ELSE /\ responses' = Append(responses, resp)
                /\ knowledge' = new_updated
                /\ remaining_words' = filter_words(remaining_words, new_updated)
                /\ round' = round + 1
                /\ pc' = "loop"

\* lines 267-301: parse, the two consistency checks, win, loss, next round
play_response(g, resp) ==
    LET new_info == parse(g, resp, word_length)
        accepted == new_info # NoneState /\ is_consistent(new_info)
        new_updated == IF accepted THEN merge(knowledge, new_info) ELSE NoneState
    IN  /\ info' = new_info
        /\ updated' = new_updated
        /\ UNCHANGED words
        /\ IF ~ accepted
           THEN pc' = "loop" /\ UNCHANGED <<knowledge, round, responses, remaining_words>>
           ELSE IF ~ is_consistent(new_updated)
           THEN pc' = "loop" /\ UNCHANGED <<knowledge, round, responses, remaining_words>>
           ELSE IF is_win(resp)
           THEN /\ responses' = Append(responses, resp)
                /\ pc' = "return_round"
                /\ UNCHANGED <<knowledge, round, remaining_words>>
           ELSE IF round >= max_rounds
           THEN /\ responses' = Append(responses, resp)
                /\ pc' = "return_None"
                /\ UNCHANGED <<knowledge, round, remaining_words>>
           ELSE /\ responses' = Append(responses, resp)
                /\ knowledge' = new_updated
                /\ remaining_words' = filter_words(remaining_words, new_updated)
                /\ round' = round + 1
                /\ pc' = "loop"

\* one iteration of the while loop of play (lines 252-301)
play_iteration ==
    /\ pc = "loop"
    /\ \E next \in {get_next_word(words, remaining_words, remaining_guesses)} :
           IF next.guess = <<>>
           THEN play_no_guess(next)
           ELSE /\ guess' = next.guess
                /\ remaining_guesses' = next.remaining_guesses
                /\ \E resp \in ResponseSource(next.guess) :
                       /\ response' = resp
                       /\ IF is_not_word(resp)
                          THEN play_not_word(next.guess)
                          ELSE play_response(next.guess, resp)
    /\ UNCHANGED <<word_length, max_rounds, test_word, no_emoji, guesses,
                   possible_answers, batchVars, optVars>>

---------------------------------------------------------------------------
(* Values of the variables a specification does not use. *)

IdleLocals ==
    /\ knowledge = NoneState
    /\ round = 0
    /\ responses = <<>>
    /\ remaining_words = <<>>
    /\ remaining_guesses = <<>>
    /\ guess = <<>>
    /\ response = <<>>
    /\ info = NoneState
    /\ updated = NoneState
    /\ pc = "idle"

IdleBatch ==
    /\ eligible_words = <<>>
    /\ scores = <<>>
    /\ failed = 0
    /\ tm_idx = 0
    /\ tm_pc = "idle"

IdleOptimal ==
    /\ trie = EmptyDict
    /\ co_idx = 0

---------------------------------------------------------------------------
(* SpecOracle: get_test_response and parse as pure functions of a guess    *)
(* and a target drawn from bounded sets.                                   *)

NumLetters == 3
MaxLen == 3

\* all words of length n over the first NumLetters letters
WordsOfLen(n) == [1..n -> 1..NumLetters]

CRANE == <<3, 18, 1, 14, 5>>
SLATE == <<19, 12, 1, 20, 5>>
TRACE == <<20, 18, 1, 3, 5>>

OraclePairs ==
    UNION {WordsOfLen(n) \X WordsOfLen(n) : n \in 1..MaxLen} \cup {<<CRANE, TRACE>>}

InitOracle ==
    /\ \E pair \in OraclePairs :
           /\ guess = pair[1]
           /\ test_word = pair[2]
           /\ word_length = Len(pair[1])
    /\ no_emoji \in BOOLEAN
    /\ words = <<>> /\ max_rounds = 0 /\ guesses = <<>> /\ possible_answers = <<>>
    /\ knowledge = NoneState /\ round = 0 /\ responses = <<>>
    /\ remaining_words = <<>> /\ remaining_guesses = <<>>
    /\ response = <<>> /\ info = NoneState /\ updated = NoneState /\ pc = "idle"
    /\ IdleBatch /\ IdleOptimal

\* response = get_test_response(guess, test_word, quiet, no_emoji)
OracleRespond ==
    /\ response = <<>>
    /\ response' = get_test_response(guess, test_word, no_emoji)
    /\ UNCHANGED <<playParams, knowledge, round, responses, remaining_words,
                   remaining_guesses, guess, info, updated, pc, batchVars, optVars>>

\* info = parse(guess, response, word_length)
OracleParse ==
    /\ response # <<>>
    /\ info = NoneState
    /\ info' = parse(guess, response, word_length)
    /\ UNCHANGED <<playParams, knowledge, round, responses, remaining_words,
                   remaining_guesses, guess, response, updated, pc, batchVars, optVars>>

NextOracle == OracleRespond \/ OracleParse

SpecOracle == InitOracle /\ [][NextOracle]_vars

\* the three marks in the encoding the response uses
MarkRight == IF no_emoji THEN RESPONSE_RIGHT ELSE RESPONSE_RIGHT_EMOJI
MarkClose == IF no_emoji THEN RESPONSE_CLOSE ELSE RESPONSE_CLOSE_EMOJI
MarkWrong == IF no_emoji THEN RESPONSE_WRONG ELSE RESPONSE_WRONG_EMOJI

\* positions the exact pass leaves: guess and target differ there
NonRight == {i \in DOMAIN guess : guess[i] # test_word[i]}

\* The mark the two-pass description gives position i: right on an exact
\* match; otherwise close when fewer earlier non-right guess positions hold
\* the same letter than there are non-right target positions holding it (one
\* target occurrence is consumed per earlier close mark), and wrong if not.
ExpectedMark(i) ==
    IF guess[i] = test_word[i] THEN MarkRight
    ELSE IF Cardinality({j \in NonRight : j < i /\ guess[j] = guess[i]})
              < Cardinality({k \in NonRight : test_word[k] = guess[i]})
         THEN MarkClose
         ELSE MarkWrong

\* C1: get_test_response marks a position right exactly on an exact match,
\* and a non-right position close exactly when its letter still occurs among
\* the target letters not consumed by a right mark or an earlier close mark,
\* wrong otherwise; CRANE against TRACE gives close, right, right, wrong, right.
C1_OracleMarks ==
    response # <<>> =>
        /\ Len(response) = Len(guess)
        /\ \A i \in DOMAIN guess : response[i] = ExpectedMark(i)
        /\ (guess = CRANE /\ test_word = TRACE) =>
               response = <<MarkClose, MarkRight, MarkRight, MarkWrong, MarkRight>>

\* a repeated guess letter got one close mark and, later, one wrong mark
C1_Witness ==
    /\ response # <<>>
    /\ \E i, j \in DOMAIN guess :
           /\ i < j /\ guess[i] = guess[j]
           /\ response[i] = MarkClose /\ response[j] = MarkWrong

\* C2: the target satisfies the State parsed from its own feedback.
C2_RoundTrip ==
    (response # <<>> /\ info # NoneState) => satisfied(test_word, info)

\* the feedback of a guess with a repeated letter, right in one place and
\* wrong in another (so the letter is marked wrong everywhere), was parsed
C2_Witness ==
    /\ info # NoneState
    /\ \E i, j \in DOMAIN guess :
           /\ guess[i] = guess[j]
           /\ response[i] = MarkRight /\ response[j] = MarkWrong
           /\ guess[i] \notin CloseLetters(guess, response)
    /\ satisfied(test_word, info)

OracleParsed == response # <<>> /\ info' # info

---------------------------------------------------------------------------
(* SpecPlay: one game, interactive (test_word empty, the player types any  *)
(* response) or simulated (responses from get_test_response).              *)

MaxRounds == 2
MaxQueue == 2

\* the dictionary: the two-letter words over A..D, sorted as load_words does
PlayWords == SortedList([1..2 -> 1..4])

\* answer pools: none (the dictionary is the pool), a pool of ten words that
\* the best-ranked first guess, BA, is not in, and a pool of three words
AnswerPools ==
    {<<>>,
     <<<<1,1>>, <<1,2>>, <<1,3>>, <<1,4>>, <<2,2>>, <<2,3>>, <<2,4>>, <<3,2>>,
       <<4,3>>, <<4,4>>>>,
     <<<<1,2>>, <<2,1>>, <<3,4>>>>}

\* pre-supplied guess queues: up to MaxQueue guesses, each the dictionary
\* word CC, which the pool of ten does not hold
QueueWords == {<<3,3>>}
GuessQueues == UNION {[1..n -> QueueWords] : n \in 0..MaxQueue}

TestWords == {<<>>, <<1,2>>, <<4,3>>}

InitPlay ==
    /\ words = PlayWords
    /\ ~ use_heuristic(words)
    /\ word_length = 2
    /\ max_rounds \in 1..MaxRounds
    /\ test_word \in TestWords
    /\ no_emoji \in IF test_word = <<>> THEN {TRUE} ELSE BOOLEAN
    /\ guesses \in GuessQueues
    /\ possible_answers \in AnswerPools
    /\ LET e == play_entry(words, word_length, guesses, possible_answers)
       IN  /\ knowledge = e.knowledge
           /\ round = e.round
           /\ responses = e.responses
           /\ remaining_words = e.remaining_words
           /\ remaining_guesses = e.remaining_guesses
    /\ guess = <<>> /\ response = <<>> /\ info = NoneState /\ updated = NoneState
    /\ pc = "loop"
    /\ IdleBatch /\ IdleOptimal

NextPlay == play_iteration

SpecPlay == InitPlay /\ [][NextPlay]_vars

\* a step is a loop iteration that obtained a response
GotResponse == pc = "loop" /\ guess' # <<>>

\* C4: on the not-a-word flag the guess leaves the dictionary and the
\* remaining pool, the game stays in its loop with the round counter and the
\* running State unchanged, and no error is raised -- for any guess.
C4_NotWordRemoves ==
    [][(GotResponse /\ is_not_word(response')) =>
          /\ pc' = "loop"
          /\ guess' \notin Range(words')
          /\ guess' \notin Range(remaining_words')
          /\ round' = round
          /\ knowledge' = knowledge]_vars

\* the claim's reading of the three recoverable failures, from the spec's
\* definition of consistency (not from is_consistent)
Inconsistent(st) ==
    \/ \E i \in DOMAIN st.spots : st.spots[i] = {}
    \/ SumOver(st.required, DOMAIN st.required) > st.word_length
    \/ \E c \in DOMAIN st.required :
           st.required[c] > Cardinality({i \in DOMAIN st.spots : c \in st.spots[i]})

ParseFails(g, resp) ==
    \/ Len(resp) # word_length
    \/ \E i \in DOMAIN resp :
           resp[i] \notin {RESPONSE_WRONG, RESPONSE_CLOSE, RESPONSE_RIGHT,
                           RESPONSE_WRONG_EMOJI, RESPONSE_CLOSE_EMOJI, RESPONSE_RIGHT_EMOJI}

Rejected(g, resp) ==
    \/ ParseFails(g, resp)
    \/ Inconsistent(parse(g, resp, word_length))
    \/ Inconsistent(merge(knowledge, parse(g, resp, word_length)))

\* C5: a response that fails to parse, is self-inconsistent or is
\* inconsistent with the running State leaves the round counter, the running
\* State, the remaining pool and the response history unchanged, and the game
\* stays in its loop.
C5_RejectedChangesNothing ==
    [][(GotResponse /\ ~ is_not_word(response') /\ Rejected(guess', response')) =>
          /\ pc' = "loop"
          /\ round' = round
          /\ knowledge' = knowledge
          /\ remaining_words' = remaining_words
          /\ responses' = responses]_vars

\* in a round after the first, a well-formed and self-consistent response
\* was rejected because it contradicts the running State
C5_Witness ==
    /\ pc = "loop"
    /\ round > 1
    /\ guess # <<>>
    /\ info # NoneState
    /\ ~ Inconsistent(info)
    /\ updated # NoneState
    /\ Inconsistent(updated)
    /\ knowledge # updated

---------------------------------------------------------------------------
(* test_many *)

\* lines 214-218: the evaluation set and the empty tallies
test_many_entry(ws, mr, test_set, pa) ==
    LET answers == IF pa # <<>> THEN pa ELSE ws
    IN  [possible_answers |-> answers,
         eligible_words |-> IF test_set # <<>> THEN test_set ELSE answers,
         scores |-> [i \in 1..mr |-> 0],
         failed |-> 0]

\* line 221: play is called for the next evaluation word; the locals of the
\* new call are those of lines 247-251
test_many_play ==
    /\ tm_pc = "loop"
    /\ tm_idx <= Len(eligible_words)
    /\ test_word' = eligible_words[tm_idx]
    /\ LET e == play_entry(words, word_length, guesses, possible_answers)
       IN  /\ knowledge' = e.knowledge
           /\ round' = e.round
           /\ responses' = e.responses
           /\ remaining_words' = e.remaining_words
           /\ remaining_guesses' = e.remaining_guesses
    /\ guess' = <<>> /\ response' = <<>> /\ info' = NoneState /\ updated' = NoneState
    /\ pc' = "loop"
    /\ tm_pc' = "playing"
    /\ UNCHANGED <<words, word_length, max_rounds, no_emoji, guesses, possible_answers,
                   eligible_words, scores, failed, tm_idx, optVars>>

\* lines 222-225: the score of the game that returned is tallied; an
\* exception raised by play leaves test_many
test_many_score ==
    /\ tm_pc = "playing"
    /\ pc \in {"return_round", "return_None", "raised"}
    /\ IF pc = "raised"
       THEN tm_pc' = "raised" /\ UNCHANGED <<scores, failed, tm_idx>>
       ELSE /\ IF pc = "return_round"
               THEN scores' = [scores EXCEPT ![round] = @ + 1] /\ UNCHANGED failed
               ELSE failed' = failed + 1 /\ UNCHANGED scores
            /\ tm_idx' = tm_idx + 1
            /\ tm_pc' = "loop"
    /\ pc' = "idle"
    /\ UNCHANGED <<playParams, knowledge, round, responses, remaining_words,
                   remaining_guesses, guess, response, info, updated,
                   eligible_words, optVars>>

\* lines 227-239: the statistics.  success / played and the mean's division
\* by success raise ZeroDivisionError on a zero divisor, and max(scores)
\* raises ValueError on an empty list.
test_many_stats ==
    /\ tm_pc = "loop"
    /\ tm_idx > Len(eligible_words)
    /\ LET success == SumOver(scores, DOMAIN scores)
           played == success + failed
       IN  tm_pc' = IF played = 0 \/ success = 0 \/ Len(scores) = 0
                    THEN "raised" ELSE "done"
    /\ UNCHANGED <<playParams, playLocals, eligible_words, scores, failed, tm_idx,
                   optVars>>

---------------------------------------------------------------------------
(* SpecBatch: test_many over the dictionary of SpecPlay. *)

TestSets == {<<>>, <<<<1,2>>>>, <<<<4,4>>>>, <<<<4,4>>, <<1,2>>>>, <<<<3,4>>, <<4,4>>>>}

InitBatch ==
    /\ words = PlayWords
    /\ ~ use_heuristic(words)
    /\ word_length = 2
    /\ max_rounds \in 1..MaxRounds
    /\ guesses \in GuessQueues
    /\ no_emoji = TRUE
    /\ test_word = <<>>
    /\ \E test_set \in TestSets, pa \in AnswerPools :
           LET e == test_many_entry(words, max_rounds, test_set, pa)
           IN  /\ possible_answers = e.possible_answers
               /\ eligible_words = e.eligible_words
               /\ scores = e.scores
               /\ failed = e.failed
    /\ tm_idx = 1
    /\ tm_pc = "loop"
    /\ IdleLocals
    /\ IdleOptimal

NextBatch ==
    \/ test_many_play
    \/ tm_pc = "playing" /\ play_iteration
    \/ test_many_score
    \/ test_many_stats

SpecBatch == InitBatch /\ [][NextBatch]_vars

\* C6: batch mode plays one game per evaluation word, counts each lost game
\* as a failure, and reaches the statistics report with wins + failures =
\* number of evaluation words, whatever the outcomes, without an error.
C6_BatchReports ==
    /\ tm_pc # "raised"
    /\ tm_pc = "done" =>
           SumOver(scores, DOMAIN scores) + failed = Len(eligible_words)

---------------------------------------------------------------------------
(* SpecScenario: the simulated game against TRACE, round budget 6, over    *)
(* dictionaries that hold CRANE, SLATE, TRACE and any of six more words.   *)

DEFAULT_ROUNDS == 6

\* BRACE, DRACE, FRACE, GRACE, HRACE, JRACE
ExtraWords ==
    {<<2, 18, 1, 3, 5>>, <<4, 18, 1, 3, 5>>, <<6, 18, 1, 3, 5>>,
     <<7, 18, 1, 3, 5>>, <<8, 18, 1, 3, 5>>, <<10, 18, 1, 3, 5>>}

InitScenario ==
    /\ \E extra \in SUBSET ExtraWords : words = SortedList({CRANE, SLATE, TRACE} \cup extra)
    /\ ~ use_heuristic(words)
    /\ word_length = 5
    /\ max_rounds = DEFAULT_ROUNDS
    /\ test_word = TRACE
    /\ no_emoji \in BOOLEAN
    /\ guesses = <<>>
    /\ possible_answers = <<>>
    /\ LET e == play_entry(words, word_length, guesses, possible_answers)
       IN  /\ knowledge = e.knowledge
           /\ round = e.round
           /\ responses = e.responses
           /\ remaining_words = e.remaining_words
           /\ remaining_guesses = e.remaining_guesses
    /\ guess = <<>> /\ response = <<>> /\ info = NoneState /\ updated = NoneState
    /\ pc = "loop"
    /\ IdleBatch /\ IdleOptimal

NextScenario == play_iteration

SpecScenario == InitScenario /\ [][NextScenario]_vars

\* C7 as stated: with any dictionary holding CRANE, SLATE and TRACE the game
\* against TRACE ends in a win after 1 to 6 rounds and raises nothing.
C7_ScenarioWins ==
    /\ pc \notin {"return_None", "raised"}
    /\ pc = "return_round" => round \in 1..DEFAULT_ROUNDS

\* C7 amended: when the dictionary holds at most 6 words the game ends in a
\* win after 1 to 6 rounds, and nothing is raised: the round counter stays
\* within 1..6, the loop always has a guess to make, every iteration either
\* wins or advances the round counter, and play returns nothing but a round.
C7_SmallDictionaryWins ==
    /\ [](Len(words) <= DEFAULT_ROUNDS =>
            /\ pc \in {"loop", "return_round"}
            /\ round \in 1..DEFAULT_ROUNDS
            /\ pc = "loop" =>
                   get_next_word(words, remaining_words, remaining_guesses).guess # <<>>)
    /\ [][Len(words) <= DEFAULT_ROUNDS =>
            (pc' = "return_round" \/ (pc' = "loop" /\ round' = round + 1))]_vars

\* a game over a six-word dictionary was won in its fourth round
C7_Witness ==
    /\ Len(words) = DEFAULT_ROUNDS
    /\ pc = "return_round"
    /\ round = 4
    /\ guess = TRACE


---------------------------------------------------------------------------
(* SpecMerge: merge as a pure function.  knowledge is a State s1 built by  *)
(* merging parsed responses, info a State x parsed from any guess and any  *)
(* well-formed response (truthful or not), updated = merge(s1, x).         *)

MaxMerges == 2

\* the guesses whose responses are parsed, and the pool that is filtered:
\* the two-letter words over A..C
MergeWords == SortedList([1..2 -> 1..3])

MergeResponses == [1..2 -> {RESPONSE_WRONG, RESPONSE_CLOSE, RESPONSE_RIGHT}]

InitMerge ==
    /\ words = MergeWords
    /\ word_length = 2
    /\ max_rounds = 0 /\ test_word = <<>> /\ no_emoji = TRUE
    /\ guesses = <<>> /\ possible_answers = <<>>
    /\ knowledge = State(word_length)
    /\ info = State(word_length)
    /\ updated = State(word_length)
    /\ round = 1
    /\ responses = <<>> /\ remaining_words = <<>> /\ remaining_guesses = <<>>
    /\ guess = <<>> /\ response = <<>>
    /\ pc = "idle"
    /\ IdleBatch /\ IdleOptimal

\* updated = merge(knowledge, info), after knowledge = updated (lines 275, 299)
merge_step ==
    /\ round <= MaxMerges
    /\ \E g \in Range(words), resp \in MergeResponses :
           /\ guess' = g
           /\ response' = resp
           /\ info' = parse(g, resp, word_length)
           /\ knowledge' = updated
           /\ updated' = merge(updated, parse(g, resp, word_length))
    /\ round' = round + 1
    /\ UNCHANGED <<playParams, responses, remaining_words, remaining_guesses, pc,
                   batchVars, optVars>>

NextMerge == merge_step

SpecMerge == InitMerge /\ [][NextMerge]_vars

\* C8: for s2 = merge(s1, x), whose required counts are the pairwise maximum
\* and whose position sets the pairwise intersection, filter_words(W, s2) is
\* a subset of filter_words(W, s1).  (filter_words keeps or drops each
\* word on its own, so the whole pool and the one-word pools decide every W.)
C8_FilterMonotone ==
    /\ \A c \in ascii_uppercase :
           get(updated.required, c, 0)
               = Max(get(knowledge.required, c, 0), get(info.required, c, 0))
    /\ \A i \in 1..word_length :
           updated.spots[i] = knowledge.spots[i] \cap info.spots[i]
    /\ \A W \in {words} \cup {<<w>> : w \in Range(words)} :
           Range(filter_words(W, updated)) \subseteq Range(filter_words(W, knowledge))

\* a merge that narrowed a non-trivial State: the pool under s2 is non-empty
\* and strictly inside the pool under s1, which is not the whole pool
C8_Witness ==
    /\ round > 2
    /\ filter_words(words, updated) # <<>>
    /\ filter_words(words, updated) # filter_words(words, knowledge)
    /\ filter_words(words, knowledge) # words


---------------------------------------------------------------------------
(* dive, compute_optimal.  A trie is a dict from guess to a dict from      *)
(* response to a round number (under a win response) or to a trie.  dive   *)
(* changes the dicts it is handed in place; here it returns the changed    *)
(* dict, and a dict that was already stored under its key is stored back.  *)

\* line 196: response_lookup[target][guess]
response_lookup(ws) ==
    [target \in Range(ws) |->
        [g \in Range(ws) |-> get_test_response(g, target, TRUE)]]

\* mutant: the leaf holds the path length, one less than the round
leaf_round_PathLength(path) == Len(path)

\* line 184: the round number stored under a win response
leaf_round(path) == Len(path) + 1

\* mutant: a fresh subtree replaces the one already stored
response_trie_of_Fresh(guess_trie, resp) == EmptyDict

\* line 188: the subtree already stored under the response, or a new one
response_trie_of(guess_trie, resp) == get(guess_trie, resp, EmptyDict)

\* lines 190-191 and 192-193: a dict already stored under key was changed
\* in place; a new one is stored only when it is not empty
store(d, key, sub) ==
    IF key \in DOMAIN d THEN put(d, key, sub)
    ELSE IF DOMAIN sub # {} THEN put(d, key, sub)
    ELSE d

\* the for loop of dive, from words[i] on
RECURSIVE dive_from(_, _, _, _, _, _)
dive_from(t, ws, mr, resps, path, i) ==
    IF i > Len(ws) THEN t
    ELSE IF ws[i] \in Range(path) THEN dive_from(t, ws, mr, resps, path, i + 1)
    ELSE LET g == ws[i]
             resp == resps[g]
             guess_trie == get(t, g, EmptyDict)
             new_guess_trie ==
                 IF is_win(resp) THEN put(guess_trie, resp, leaf_round(path))
                 ELSE IF Len(path) + 1 = mr THEN guess_trie
                 ELSE store(guess_trie, resp,
                            dive_from(response_trie_of(guess_trie, resp), ws, mr, resps,
                                      Append(path, g), 1))
         IN  dive_from(store(t, g, new_guess_trie), ws, mr, resps, path, i + 1)

dive(t, ws, mr, resps, path) == dive_from(t, ws, mr, resps, path, 1)

\* lines 198-200: one iteration of the loop over the targets
compute_optimal_target ==
    /\ co_idx >= 1
    /\ co_idx <= Len(words)
    /\ trie' = dive(trie, words, max_rounds, response_lookup(words)[words[co_idx]], <<>>)
    /\ co_idx' = co_idx + 1
    /\ UNCHANGED <<playParams, playLocals, batchVars>>

---------------------------------------------------------------------------
(* SpecOptimal: compute_optimal over small dictionaries of 3-letter words. *)

MaxDict == 3
MaxBudget == 3

\* ABC, DEF, GHI, BCA, ABD, AAB, DEA
OptWords ==
    {<<1,2,3>>, <<4,5,6>>, <<7,8,9>>, <<2,3,1>>, <<1,2,4>>, <<1,1,2>>, <<4,5,1>>}

OptDictionaries ==
    {SortedList(S) : S \in {D \in SUBSET OptWords :
                               Cardinality(D) >= 2 /\ Cardinality(D) <= MaxDict}}

InitOptimal ==
    /\ words \in OptDictionaries
    /\ max_rounds \in 1..MaxBudget
    /\ word_length = 3
    /\ test_word = <<>> /\ no_emoji = TRUE /\ guesses = <<>> /\ possible_answers = <<>>
    /\ IdleLocals
    /\ IdleBatch
    /\ trie = EmptyDict
    /\ co_idx = 1

NextOptimal == compute_optimal_target

SpecOptimal == InitOptimal /\ [][NextOptimal]_vars

OptimalDone == co_idx > Len(words)

Lookup == response_lookup(words)

\* the words of a two-word dictionary differ at every position
DifferEverywhere ==
    /\ Len(words) = 2
    /\ \A i \in 1..word_length : words[1][i] # words[2][i]

\* the trie holds a win leaf for target t after one guess, valued 1, or
\* after two guesses, valued 2
HasWinPath(tr, t) ==
    \/ \E g \in DOMAIN tr :
           /\ is_win(Lookup[t][g])
           /\ Lookup[t][g] \in DOMAIN tr[g]
           /\ tr[g][Lookup[t][g]] = 1
    \/ \E g1 \in DOMAIN tr :
           /\ ~ is_win(Lookup[t][g1])
           /\ Lookup[t][g1] \in DOMAIN tr[g1]
           /\ \E g2 \in DOMAIN tr[g1][Lookup[t][g1]] :
                  /\ is_win(Lookup[t][g2])
                  /\ Lookup[t][g2] \in DOMAIN tr[g1][Lookup[t][g1]][g2]
                  /\ tr[g1][Lookup[t][g1]][g2][Lookup[t][g2]] = 2

\* new holds every entry of old, with the same round numbers
RECURSIVE TrieExtends(_, _)
TrieExtends(new, old) ==
    \A g \in DOMAIN old :
        /\ g \in DOMAIN new
        /\ \A resp \in DOMAIN old[g] :
               /\ resp \in DOMAIN new[g]
               /\ IF is_win(resp) THEN new[g][resp] = old[g][resp]
                  ELSE TrieExtends(new[g][resp], old[g][resp])

\* what one target's exploration alone puts into an empty trie
OwnTrie(t) == dive(EmptyDict, words, max_rounds, Lookup[t], <<>>)

\* C9: for a 2-word dictionary of length 3 whose words differ in every
\* letter and a round budget of 2, the finished trie holds for each target a
\* guess path to a win leaf valued 1 or 2, and the shared trie agrees with
\* each target's own exploration: what a target alone puts into an empty
\* trie is in the shared trie, subtree by subtree.  (The trie keeps one
\* subtree per guess and response, so two targets with the same response to
\* a first guess read the same subtree.)
C9_OptimalScenario ==
    (DifferEverywhere /\ max_rounds = 2 /\ OptimalDone) =>
        /\ \A t \in Range(words) : HasWinPath(trie, t)
        /\ \A t \in Range(words) : TrieExtends(trie, OwnTrie(t))

\* the search over ABC and DEF with budget 2 has finished, and the trie holds
\* the second-round win of ABC after DEF
C9_Witness ==
    /\ DifferEverywhere /\ max_rounds = 2 /\ OptimalDone
    /\ words = <<<<1,2,3>>, <<4,5,6>>>>
    /\ <<4,5,6>> \in DOMAIN trie
    /\ Lookup[<<1,2,3>>][<<4,5,6>>] \in DOMAIN trie[<<4,5,6>>]
    /\ <<1,2,3>> \in DOMAIN trie[<<4,5,6>>][Lookup[<<1,2,3>>][<<4,5,6>>]]

\* the step explores target words[co_idx]; (g, resp) is an edge on its path
\* whose subtree an earlier target left in the trie
ExistingEdges ==
    {e \in Range(words) \X {Lookup[words[co_idx]][g] : g \in Range(words)} :
        /\ e[2] = Lookup[words[co_idx]][e[1]]
        /\ ~ is_win(e[2])
        /\ e[1] \in DOMAIN trie
        /\ e[2] \in DOMAIN trie[e[1]]}

\* C10 as stated: a subtree that already exists under a (guess, non-win
\* response) edge of the current target's path is reused without recursing
\* into it, so the later target leaves it unchanged.
C10_SubtreeUnchanged ==
    [][(co_idx <= Len(words)) =>
          \A e \in ExistingEdges : trie'[e[1]][e[2]] = trie[e[1]][e[2]]]_vars

\* C10 amended: dive takes the subtree that already exists under the edge
\* and recurses into it again; the later target may add entries to it, and
\* every entry the trie held stays, with the same round number.
C10_SubtreeOnlyGrows ==
    [][(co_idx <= Len(words)) =>
          /\ TrieExtends(trie', trie)
          /\ \A e \in ExistingEdges :
                 trie'[e[1]][e[2]] =
                     dive(trie[e[1]][e[2]], words, max_rounds,
                          Lookup[words[co_idx]], <<e[1]>>)]_vars

\* a subtree under a non-win response holds the win leaves of two targets:
\* the later target's exploration went into the subtree the earlier one made
C10_Witness ==
    /\ co_idx > 2
    /\ \E g \in DOMAIN trie : \E resp \in DOMAIN trie[g] :
           /\ ~ is_win(resp)
           /\ \E t1, t2 \in DOMAIN trie[g][resp] :
                  /\ t1 # t2
                  /\ Lookup[t1][t1] \in DOMAIN trie[g][resp][t1]
                  /\ Lookup[t2][t2] \in DOMAIN trie[g][resp][t2]

---------------------------------------------------------------------------
(* SpecSimulated: one simulated game. The test word is any dictionary word *)
(* (main checks it against the dictionary only), the answer pool is the    *)
(* dictionary or a smaller list, and every response is the oracle's.       *)

MaxSimRounds == 3

\* the dictionary: the three-letter words over A..C, sorted as load_words does
SimWords == SortedList([1..3 -> 1..3])

\* answer pools: none (the dictionary is the pool) and a pool of six words,
\* fewer than RANK_HEURISTIC_TRY_TO_WIN_COUNT
SimPools ==
    {<<>>,
     <<<<1,1,2>>, <<1,2,1>>, <<1,2,3>>, <<2,1,1>>, <<2,3,1>>, <<3,3,3>>>>}

\* pre-supplied guess queues: up to MaxQueue guesses out of AAB and CBA,
\* dictionary words of the word length as valid_or_throw requires
SimQueueWords == {<<1,1,2>>, <<3,2,1>>}
SimQueues == UNION {[1..n -> SimQueueWords] : n \in 0..MaxQueue}

InitSimulated ==
    /\ words = SimWords
    /\ ~ use_heuristic(words)
    /\ word_length = 3
    /\ max_rounds \in 1..MaxSimRounds
    /\ test_word \in Range(words)
    /\ no_emoji \in BOOLEAN
    /\ guesses \in SimQueues
    /\ possible_answers \in SimPools
    /\ LET e == play_entry(words, word_length, guesses, possible_answers)
       IN  /\ knowledge = e.knowledge
           /\ round = e.round
           /\ responses = e.responses
           /\ remaining_words = e.remaining_words
           /\ remaining_guesses = e.remaining_guesses
    /\ guess = <<>> /\ response = <<>> /\ info = NoneState /\ updated = NoneState
    /\ pc = "loop"
    /\ IdleBatch /\ IdleOptimal

NextSimulated == play_iteration

SpecSimulated == InitSimulated /\ [][NextSimulated]_vars

\* the answer pool the game starts from (line 250); nothing removes a word
\* from the dictionary in a simulated game
InitialPool == IF possible_answers # <<>> THEN possible_answers ELSE words

TestWordInPool == test_word # <<>> /\ test_word \in Range(InitialPool)

\* C11: in a simulated game whose test word is in the initial answer pool,
\* in every reachable state the test word is in the remaining pool and
\* satisfies the running State, and the running State is consistent; every
\* loop iteration gets a guess, its oracle response parses and is accepted
\* (self-consistent, and consistent once merged), no error is raised, and
\* the iteration either returns or advances the round counter by one.
C11_SimulatedSound ==
    /\ [](TestWordInPool =>
            /\ pc \in {"loop", "return_round", "return_None"}
            /\ test_word \in Range(remaining_words)
            /\ satisfied(test_word, knowledge)
            /\ ~ Inconsistent(knowledge))
    /\ [][(TestWordInPool /\ pc = "loop") =>
            /\ guess' # <<>>
            /\ response' = get_test_response(guess', test_word, no_emoji)
            /\ ~ Rejected(guess', response')
            /\ \/ pc' \in {"return_round", "return_None"} /\ round' = round
               \/ pc' = "loop" /\ round' = round + 1]_vars

\* the third round of a game still running: the first guess came from the
\* queue and the second from the ranker, both responses were merged into a
\* State that requires a letter, and the pool has shrunk around the test word
C11_Witness ==
    /\ TestWordInPool
    /\ pc = "loop"
    /\ round = 3
    /\ Len(guesses) = 1
    /\ Len(responses) = 2
    /\ DOMAIN knowledge.required # {}
    /\ Len(remaining_words) < Len(InitialPool)
    /\ test_word \in Range(remaining_words)

=============================================================================
